---- MODULE Spec2Model ----
(***************************************************************************)
(* A model of app.py, the Streamlit chat page of "Groq Chatbot with        *)
(* Memory".  One browser session is modelled: the sidebar widgets, the     *)
(* two entries the script keeps in st.session_state (memory, _mem_config), *)
(* the script runs that every user interaction triggers, and the typing    *)
(* loop that reveals a reply.  The chat model and the summarizer are       *)
(* external services: their answers are inputs chosen nondeterministically.*)
(* Text is a sequence of one-character strings.                            *)
(***************************************************************************)
EXTENDS Integers, Sequences, FiniteSets, TLC

VARIABLES
    GROQ_API_KEY,   \* sidebar text input: "" (none), "bad" or "good"
    model_name,     \* sidebar selectbox
    memory_type,    \* sidebar selectbox
    window_k,       \* slider value, NoneK when the slider is not shown
    memory,         \* st.session_state.memory (NoMemory when absent)
    _mem_config,    \* st.session_state._mem_config (NoConfig when absent)
    pc,             \* "idle", "rerun" (st.rerun() pending) or "typing"
    full_response,  \* the reply being revealed by the typing loop
    accum,          \* the text revealed so far
    ui,             \* what the latest script run showed and did
    completed       \* history variable: successful turns on the current
                    \* memory since it was created or cleared

vars == <<GROQ_API_KEY, model_name, memory_type, window_k, memory,
          _mem_config, pc, full_response, accum, ui, completed>>

(***************************************************************************)
(* Bounds of the model                                                     *)
(***************************************************************************)
\* turns that may be stored in one memory before the model stops adding
MaxTurns == 3
\* largest slider position explored besides the slider's default
MaxWindowK == 2

(***************************************************************************)
(* Constants of the program                                                *)
(***************************************************************************)
SliderMin == 2
SliderMax == 20
SliderDefault == 6
WindowFallback == 6

NL == "\n"
NoneK == 0
NoInput == <<>>

ApiKeys == {"", "bad", "good"}
Models == {"deepseek-r1-distill-llama-70b", "gemma2-9b-it"}
MemoryTypes == {"Buffer (all)", "Summary (long chats)", "Window (last N)"}
WindowSizes == {k \in SliderMin..SliderMax : k <= MaxWindowK \/ k = SliderDefault}

\* what the user may type into st.chat_input (never empty)
UserInputs == {<<"h", "i">>, <<"a", NL, "b">>}
\* what the chat model may answer
Responses == {<<"o", "k">>, <<"x", NL>>, <<NL, NL>>}

HumanType == <<"h", "u", "m", "a", "n">>
AIType == <<"a", "i">>
SystemType == <<"s", "y", "s", "t", "e", "m">>

Message(type, content) == [type |-> type, content |-> content]

NoMemory == [kind |-> "absent", k |-> 0, messages |-> <<>>, buffer |-> <<>>,
             summarizer_key |-> ""]
NoConfig == [type |-> "unset", k |-> NoneK]
NoDownload == [offered |-> FALSE, data |-> <<>>]

(***************************************************************************)
(* The memory objects (langchain.memory), as app.py constructs and uses    *)
(* them                                                                    *)
(***************************************************************************)
\* mem_key = f"memory::{memory_type}::{window_k}": one key per pair
mem_key(mtype, wk) == [type |-> mtype, k |-> wk]

\* the test that decides whether a fresh memory object replaces the old one
NeedsNewMemoryTypeOnly(config, key) == config = NoConfig \/ config.type # key.type
NeedsNewMemoryAlways(config, key) == TRUE
NeedsNewMemory(config, key) == config = NoConfig \/ config # key

\* a fresh, empty memory object for the current settings
NewMemory(mtype, wk, api_key) ==
    IF mtype = "Summary (long chats)"
    THEN [kind |-> "Summary", k |-> 0, messages |-> <<>>, buffer |-> <<>>,
          summarizer_key |-> api_key]
    ELSE IF mtype = "Window (last N)"
    THEN [kind |-> "Window", k |-> IF wk # NoneK THEN wk ELSE WindowFallback,
          messages |-> <<>>, buffer |-> <<>>, summarizer_key |-> ""]
    ELSE [kind |-> "Buffer", k |-> 0, messages |-> <<>>, buffer |-> <<>>,
          summarizer_key |-> ""]

\* st.session_state.memory.clear(): the messages and the summary are dropped
clearKeepsMessages(mem) == [mem EXCEPT !.buffer = <<>>]
clear(mem) == [mem EXCEPT !.messages = <<>>, !.buffer = <<>>]

\* s[-n:] of Python
Suffix(s, n) == IF Len(s) <= n THEN s ELSE SubSeq(s, Len(s) - n + 1, Len(s))

\* the history a memory object supplies to the prompt's MessagesPlaceholder
load_memory_variablesAll(mem) ==
    IF mem.kind = "Summary" THEN <<Message(SystemType, mem.buffer)>>
    ELSE mem.messages
load_memory_variables(mem) ==
    IF mem.kind = "Summary" THEN <<Message(SystemType, mem.buffer)>>
    ELSE IF mem.kind = "Window"
    THEN (IF mem.k > 0 THEN Suffix(mem.messages, 2 * mem.k) ELSE <<>>)
    ELSE mem.messages

\* the summarizer's new summary from the old one and the latest exchange; the
\* text is the external model's, kept here as one mark per folded exchange
predict_new_summary(lines, existing) == Append(existing, "s")

\* the chat memory takes the turn: the user's message, then the reply
add_messagesBlankReply(messages, input, output) ==
    messages \o <<Message(HumanType, input), Message(AIType, <<>>)>>
add_messages(messages, input, output) ==
    messages \o <<Message(HumanType, input), Message(AIType, output)>>

\* memory.save_context of a finished model call.  The summary memory stores
\* the two messages first and then calls the summarizer, which may raise.
save_context(mem, input, output, summarizer_ok) ==
    LET stored == [mem EXCEPT !.messages = add_messages(@, input, output)]
    IN  IF mem.kind = "Summary" /\ summarizer_ok
        THEN [stored EXCEPT !.buffer =
                 predict_new_summary(Suffix(stored.messages, 2), mem.buffer)]
        ELSE stored

\* conversation.predict(input=user_input): load the history, call the model,
\* save the turn.  reply is what the external services answer:
\*   llm        "ok" or "error" (the completion request)
\*   text       the completion
\*   summarizer "ok", "error" or "unused" (the summary request)
predictStoresInputFirst(mem, input, reply) ==
    LET history == load_memory_variables(mem)
    IN  IF reply.llm = "error"
        THEN [memory |-> [mem EXCEPT !.messages = Append(@, Message(HumanType, input))],
              history |-> history, requests |-> 1,
              exception |-> "llm", response |-> <<>>]
        ELSE IF mem.kind = "Summary" /\ reply.summarizer = "error"
        THEN [memory |-> save_context(mem, input, reply.text, FALSE),
              history |-> history, requests |-> 2,
              exception |-> "summarizer", response |-> <<>>]
        ELSE [memory |-> save_context(mem, input, reply.text, TRUE),
              history |-> history,
              requests |-> IF mem.kind = "Summary" THEN 2 ELSE 1,
              exception |-> "none", response |-> reply.text]
predict(mem, input, reply) ==
    LET history == load_memory_variables(mem)
    IN  IF reply.llm = "error"
        THEN [memory |-> mem, history |-> history, requests |-> 1,
              exception |-> "llm", response |-> <<>>]
        ELSE IF mem.kind = "Summary" /\ reply.summarizer = "error"
        THEN [memory |-> save_context(mem, input, reply.text, FALSE),
              history |-> history, requests |-> 2,
              exception |-> "summarizer", response |-> <<>>]
        ELSE [memory |-> save_context(mem, input, reply.text, TRUE),
              history |-> history,
              requests |-> IF mem.kind = "Summary" THEN 2 ELSE 1,
              exception |-> "none", response |-> reply.text]

(***************************************************************************)
(* The transcript offered for download                                     *)
(***************************************************************************)
\* str.upper() on the letters the role names are made of
UpperChar(c) ==
    CASE c = "a" -> "A" [] c = "h" -> "H" [] c = "i" -> "I" [] c = "m" -> "M"
      [] c = "n" -> "N" [] c = "u" -> "U" [] c = "s" -> "S" [] c = "t" -> "T"
      [] c = "e" -> "E" [] c = "y" -> "Y" [] OTHER -> c
upper(s) == [i \in 1..Len(s) |-> UpperChar(s[i])]

\* f"{role}: {m.content}"
history_lineNoUpper(m) == m.type \o <<":", " ">> \o m.content
history_line(m) == upper(m.type) \o <<":", " ">> \o m.content

RECURSIVE join(_, _)
\* sep.join(lines)
join(lines, sep) ==
    IF lines = <<>> THEN <<>>
    ELSE IF Len(lines) = 1 THEN lines[1]
    ELSE lines[1] \o sep \o join(Tail(lines), sep)

history_textSingleNewline(messages) ==
    join([i \in 1..Len(messages) |-> history_line(messages[i])], <<NL>>)
history_text(messages) ==
    join([i \in 1..Len(messages) |-> history_line(messages[i])], <<NL, NL>>)

\* the download section: the button is offered only for a non-empty list
download_button(mem) ==
    IF mem.messages # <<>>
    THEN [offered |-> TRUE, data |-> history_text(mem.messages)]
    ELSE NoDownload

(***************************************************************************)
(* One run of the script                                                   *)
(***************************************************************************)
BlankUI == [warning |-> FALSE,      \* the "enter your API key" warning
            cleared |-> FALSE,      \* "Chat history cleared!"
            removed |-> 0,          \* history field: messages this run dropped
            created |-> FALSE,      \* a fresh memory object was stored
            chat_input |-> FALSE,   \* st.chat_input was rendered
            history |-> <<>>,       \* the history handed to the model call
            requests |-> 0,         \* requests sent to the external model
            exception |-> "none",   \* the uncaught exception Streamlit shows
            download |-> NoDownload]

\* `if not GROQ_API_KEY`
KeyMissingNever(api_key) == FALSE
KeyMissing(api_key) == api_key = ""

\* what the external services may answer to a turn
SummarizerOutcomes(mem) ==
    IF mem.kind # "Summary" THEN {"unused"}
    ELSE IF mem.summarizer_key = "good" THEN {"ok", "error"}
    ELSE {"error"}
Replies(api_key, mem) ==
    {[llm |-> "error", text |-> <<>>, summarizer |-> "unused"]}
    \cup (IF api_key = "good"
          THEN {[llm |-> "ok", text |-> r, summarizer |-> s] :
                    r \in Responses, s \in SummarizerOutcomes(mem)}
          ELSE {})
NoReply == [llm |-> "error", text |-> <<>>, summarizer |-> "unused"]

\* The script from its first line to the typing loop (or to its end, or to
\* st.stop(), st.rerun() or an uncaught exception), with the widget values of
\* this run: clicked is the Clear Chat button, user_input the chat input.
ScriptRun(api_key, mdl, mtype, wk, clicked, user_input, reply) ==
    /\ GROQ_API_KEY' = api_key
    /\ model_name' = mdl
    /\ memory_type' = mtype
    /\ window_k' = wk
    /\ accum' = <<>>
    /\ IF clicked
       THEN /\ memory' = IF memory # NoMemory THEN clear(memory) ELSE memory
            /\ _mem_config' = _mem_config
            /\ completed' = 0
            /\ ui' = [BlankUI EXCEPT !.cleared = TRUE,
                                     !.removed = Len(memory.messages)]
            /\ full_response' = <<>>
            /\ pc' = "rerun"
       ELSE IF KeyMissing(api_key)
       THEN /\ UNCHANGED <<memory, _mem_config, completed>>
            /\ ui' = [BlankUI EXCEPT !.warning = TRUE]
            /\ full_response' = <<>>
            /\ pc' = "idle"
       ELSE LET key == mem_key(mtype, wk)
                fresh == NeedsNewMemory(_mem_config, key)
                mem == IF fresh THEN NewMemory(mtype, wk, api_key) ELSE memory
                done == IF fresh THEN 0 ELSE completed
                gone == IF fresh THEN Len(memory.messages) ELSE 0
                turn == predict(mem, user_input, reply)
            IN  /\ _mem_config' = IF fresh THEN key ELSE _mem_config
                /\ IF user_input # NoInput
                   THEN /\ memory' = turn.memory
                        /\ completed' = IF turn.exception = "none"
                                        THEN done + 1 ELSE done
                        /\ ui' = [BlankUI EXCEPT !.created = fresh,
                                                 !.removed = gone,
                                                 !.chat_input = TRUE,
                                                 !.history = turn.history,
                                                 !.requests = turn.requests,
                                                 !.exception = turn.exception]
                        /\ full_response' = turn.response
                        /\ pc' = IF turn.exception = "none"
                                 THEN "typing" ELSE "idle"
                   ELSE /\ memory' = mem
                        /\ completed' = done
                        /\ ui' = [BlankUI EXCEPT !.created = fresh,
                                                 !.removed = gone,
                                                 !.chat_input = TRUE,
                                                 !.download = download_button(mem)]
                        /\ full_response' = <<>>
                        /\ pc' = "idle"

(***************************************************************************)
(* The session                                                             *)
(***************************************************************************)
\* the page as first served: default widgets, no key, the script stopped
Init ==
    /\ GROQ_API_KEY = ""
    /\ model_name = "deepseek-r1-distill-llama-70b"
    /\ memory_type = "Buffer (all)"
    /\ window_k = NoneK
    /\ memory = NoMemory
    /\ _mem_config = NoConfig
    /\ pc = "idle"
    /\ full_response = <<>>
    /\ accum = <<>>
    /\ ui = [BlankUI EXCEPT !.warning = TRUE]
    /\ completed = 0

EnterApiKey ==
    /\ pc = "idle"
    /\ \E v \in ApiKeys \ {GROQ_API_KEY} :
          ScriptRun(v, model_name, memory_type, window_k, FALSE, NoInput, NoReply)

SelectModel ==
    /\ pc = "idle"
    /\ \E m \in Models \ {model_name} :
          ScriptRun(GROQ_API_KEY, m, memory_type, window_k, FALSE, NoInput, NoReply)

\* the slider appears with its default when the window memory is selected
SelectMemoryType ==
    /\ pc = "idle"
    /\ \E t \in MemoryTypes \ {memory_type} :
          ScriptRun(GROQ_API_KEY, model_name, t,
                    IF t = "Window (last N)" THEN SliderDefault ELSE NoneK,
                    FALSE, NoInput, NoReply)

MoveWindowSlider ==
    /\ pc = "idle"
    /\ memory_type = "Window (last N)"
    /\ \E k \in WindowSizes \ {window_k} :
          ScriptRun(GROQ_API_KEY, model_name, memory_type, k, FALSE, NoInput, NoReply)

ClickClear ==
    /\ pc = "idle"
    /\ ScriptRun(GROQ_API_KEY, model_name, memory_type, window_k, TRUE, NoInput, NoReply)

\* st.rerun(): the script runs again with the same widgets, no button pressed
Rerun ==
    /\ pc = "rerun"
    /\ ScriptRun(GROQ_API_KEY, model_name, memory_type, window_k, FALSE, NoInput, NoReply)

\* the user submits a message; a completion is stored only below MaxTurns
SubmitChat ==
    /\ pc = "idle"
    /\ ui.chat_input
    /\ \E text \in UserInputs, reply \in Replies(GROQ_API_KEY, memory) :
          /\ reply.llm = "ok" => Len(memory.messages) < 2 * MaxTurns
          /\ ScriptRun(GROQ_API_KEY, model_name, memory_type, window_k,
                       FALSE, text, reply)

\* one pass of `for ch in full_response`
TypeChar ==
    /\ pc = "typing"
    /\ Len(accum) < Len(full_response)
    /\ accum' = Append(accum, full_response[Len(accum) + 1])
    /\ UNCHANGED <<GROQ_API_KEY, model_name, memory_type, window_k, memory,
                   _mem_config, pc, full_response, ui, completed>>

\* the loop is exhausted: the script goes on to the download section and ends
FinishRun ==
    /\ pc = "typing"
    /\ Len(accum) >= Len(full_response)
    /\ ui' = [ui EXCEPT !.download = download_button(memory)]
    /\ pc' = "idle"
    /\ UNCHANGED <<GROQ_API_KEY, model_name, memory_type, window_k, memory,
                   _mem_config, full_response, accum, completed>>

Next ==
    \/ EnterApiKey
    \/ SelectModel
    \/ SelectMemoryType
    \/ MoveWindowSlider
    \/ ClickClear
    \/ Rerun
    \/ SubmitChat
    \/ TypeChar
    \/ FinishRun

Spec == Init /\ [][Next]_vars

(***************************************************************************)
(* The claims                                                              *)
(***************************************************************************)
\* a step that runs the script from its first line (not a typing-loop step)
\* is a step taken with pc # "typing"; the run passed the key check when it
\* ended neither at st.rerun() nor at st.stop()
PassedKeyCheck == pc # "rerun" /\ ~KeyMissing(GROQ_API_KEY)

Alternates(messages) ==
    \A i \in 1..Len(messages) :
        messages[i].type = IF i % 2 = 1 THEN HumanType ELSE AIType

\* C1: the stored message list is twice as long as the number of successfully
\* completed turns, a user entry then an assistant entry per turn, and a
\* failed turn leaves its length unchanged.
C1_LengthIsTwiceCompletedTurns ==
    /\ Len(memory.messages) = 2 * completed
    /\ Alternates(memory.messages)

CompleteTurn == SubmitChat /\ ui'.exception = "none"

\* C3: when the completion request of a turn fails, the failure is shown, the
\* stored messages and the recorded configuration are as before the turn, and
\* the chat input is there for a later turn, which completes when the services
\* answer.
C3_FailedCallLeavesMemory ==
    /\ [][(pc # "typing" /\ ui'.exception = "llm")
            => /\ memory' = memory
               /\ _mem_config' = _mem_config
               /\ ui'.requests = 1
               /\ ui'.chat_input
               /\ pc' = "idle"]_vars
    /\ []((/\ ui.exception = "llm"
           /\ GROQ_API_KEY = "good"
           /\ SummarizerOutcomes(memory) # {"error"}
           /\ Len(memory.messages) < 2 * MaxTurns)
            => ENABLED CompleteTurn)

\* a completion request failed in a session that already holds a turn
C3_Witness ==
    /\ ui.exception = "llm"
    /\ Len(memory.messages) >= 2
    /\ GROQ_API_KEY = "good"

\* C4: under the summary memory, a failure of the summarizer request is shown
\* to the user and the turn is not recorded: the stored message list is the
\* one before the turn.
C4_SummarizerFailureNotRecorded ==
    [][(pc # "typing" /\ ui'.exception = "summarizer")
         => memory'.messages = memory.messages]_vars

\* C5: the run that follows a Clear Chat click ends with an empty message list
\* and no download button, under every memory type, with or without a key.
C5_ClearEmptiesAndHidesExport ==
    [][pc = "rerun"
         => /\ memory.messages = <<>>
            /\ memory'.messages = <<>>
            /\ ~ui'.download.offered
            /\ pc' = "idle"]_vars

\* Clear Chat was clicked on a session that held messages
C5_Witness ==
    /\ pc = "rerun"
    /\ ui.cleared
    /\ ui.removed > 0
    /\ memory # NoMemory

(***************************************************************************)
(* Reading the transcript back                                             *)
(***************************************************************************)
\* s starts with p
StartsWith(s, p) == Len(p) <= Len(s) /\ SubSeq(s, 1, Len(p)) = p

\* where sep first occurs in s (0 when it does not)
Find(s, sep) ==
    LET hits == {i \in 1..(Len(s) - Len(sep) + 1) :
                    SubSeq(s, i, i + Len(sep) - 1) = sep}
    IN  IF hits = {} THEN 0 ELSE CHOOSE i \in hits : \A j \in hits : i <= j

RECURSIVE split(_, _)
\* s.split(sep) of Python
split(s, sep) ==
    LET i == Find(s, sep)
    IN  IF i = 0 THEN <<s>>
        ELSE <<SubSeq(s, 1, i - 1)>>
             \o split(SubSeq(s, i + Len(sep), Len(s)), sep)

BlankLine == <<NL, NL>>
EndsWithNewline(s) == s # <<>> /\ s[Len(s)] = NL
HasBlankLine(s) == Find(s, BlankLine) # 0

\* the entries a reader expects: a label per role, then the content
Entries(messages, human_label, ai_label) ==
    [i \in 1..Len(messages) |->
        (IF messages[i].type = HumanType THEN human_label ELSE ai_label)
        \o messages[i].content]

\* no content holds a blank line, and none but the last ends with a newline
SeparatorsAreUnambiguous(messages) ==
    \A i \in 1..Len(messages) :
        /\ ~HasBlankLine(messages[i].content)
        /\ i < Len(messages) => ~EndsWithNewline(messages[i].content)

\* C6 as stated: split on blank lines, the transcript gives one entry per
\* stored message, in order, "USER: " or "AI: " followed by the content,
\* whatever the contents.
C6_TranscriptSplitsIntoUserAndAiEntries ==
    ui.download.offered
      => split(ui.download.data, BlankLine)
           = Entries(memory.messages, <<"U", "S", "E", "R", ":", " ">>,
                     <<"A", "I", ":", " ">>)

\* C6 as amended: the labels are "HUMAN: " and "AI: ", and the entries come
\* back one per message when no content holds a blank line and none but the
\* last ends with a newline.
C6_TranscriptSplitsIntoHumanAndAiEntries ==
    (ui.download.offered /\ SeparatorsAreUnambiguous(memory.messages))
      => split(ui.download.data, BlankLine)
           = Entries(memory.messages, <<"H", "U", "M", "A", "N", ":", " ">>,
                     <<"A", "I", ":", " ">>)

\* a transcript of two turns is offered, one content holding a newline
C6_Witness ==
    /\ ui.download.offered
    /\ SeparatorsAreUnambiguous(memory.messages)
    /\ Len(memory.messages) >= 4
    /\ \E i \in 1..Len(memory.messages) : NL \in {memory.messages[i].content[j] :
                                               j \in 1..Len(memory.messages[i].content)}

\* C7: under the window memory with slider value N, the history handed to a
\* model call is the latest stored messages, in order, at most 2N of them.
C7_WindowHistoryIsLastExchanges ==
    [][(pc # "typing" /\ ui'.requests > 0 /\ memory_type' = "Window (last N)")
         => LET N == window_k'
                stored == memory.messages
                h == ui'.history
            IN  /\ N \in SliderMin..SliderMax
                /\ Len(h) = IF Len(stored) <= 2 * N THEN Len(stored) ELSE 2 * N
                /\ \A i \in 1..Len(h) : h[i] = stored[Len(stored) - Len(h) + i]]_vars

\* a model call made after more than N exchanges got exactly 2N messages
C7_Witness ==
    /\ ui.requests > 0
    /\ memory.kind = "Window"
    /\ Len(ui.history) = 2 * window_k
    /\ Len(memory.messages) - (IF ui.exception = "none" THEN 2 ELSE 0)
         > 2 * window_k

\* C8 as stated: in every script run with a missing or invalid key the problem
\* is reported, no request is sent to the external model, no memory object is
\* created or replaced and no message is appended.
C8_MissingOrInvalidKeyFailsFast ==
    [][(pc # "typing" /\ GROQ_API_KEY' \in {"", "bad"})
         => /\ ui'.warning \/ pc' = "rerun"
            /\ ui'.requests = 0
            /\ ~ui'.created
            /\ Len(memory'.messages) <= Len(memory.messages)]_vars

\* C8 as amended: the same for a missing (empty) key; the run of a Clear Chat
\* click ends at st.rerun() and the run that follows shows the warning.
C8_MissingKeyFailsFast ==
    [][(pc # "typing" /\ GROQ_API_KEY' = "")
         => /\ ui'.warning \/ pc' = "rerun"
            /\ pc = "rerun" => ui'.warning
            /\ ui'.requests = 0
            /\ ~ui'.created
            /\ ~ui'.chat_input
            /\ memory'.kind = memory.kind
            /\ _mem_config' = _mem_config
            /\ Len(memory'.messages) <= Len(memory.messages)
            /\ pc' # "rerun" => memory' = memory]_vars

\* the key was removed from a session that holds messages: the run stopped
\* at the warning and the memory is still there
C8_Witness ==
    /\ GROQ_API_KEY = ""
    /\ ui.warning
    /\ memory.messages # <<>>

IsPrefix(p, s) == Len(p) <= Len(s) /\ SubSeq(s, 1, Len(p)) = p

\* C9: a successful turn stores the full reply once, before the reveal; no
\* step of the typing loop changes the stored list, whose last entry is the
\* full reply throughout, and the text revealed at the end is that content.
C9_RevealLeavesStoredReply ==
    [][/\ (pc # "typing" /\ pc' = "typing")
            => /\ Len(memory'.messages) = Len(memory.messages) + 2
               /\ SubSeq(memory'.messages, 1, Len(memory.messages)) = memory.messages
               /\ memory'.messages[Len(memory'.messages)]
                    = Message(AIType, full_response')
               /\ accum' = <<>>
       /\ pc = "typing"
            => /\ memory' = memory
               /\ full_response' = full_response
               /\ memory.messages[Len(memory.messages)].content = full_response
               /\ IsPrefix(accum, full_response)
               /\ IsPrefix(accum', full_response)
               /\ pc' # "typing" => accum = full_response]_vars

\* the reveal of a reply has reached its last character
C9_Witness ==
    /\ pc = "typing"
    /\ accum # <<>>
    /\ accum = full_response
    /\ memory.messages[Len(memory.messages)].content = accum

\* C10: a fresh memory object is stored exactly in the runs that pass the key
\* check with a requested key different from the recorded one; a run with the
\* same key keeps the object, and unless it is a turn or a clear it leaves the
\* memory and the recorded key as they were, whatever widget changed.
C10_MemoryKeyedByConfigurationOnly ==
    [][pc # "typing"
         => /\ ui'.created
                <=> (PassedKeyCheck' /\ mem_key(memory_type', window_k') # _mem_config)
            /\ ~ui'.created
                => /\ memory'.kind = memory.kind
                   /\ memory'.k = memory.k
                   /\ _mem_config' = _mem_config
            /\ (~ui'.created /\ ui'.requests = 0 /\ ~ui'.cleared)
                => memory' = memory]_vars

\* another model was selected and the session's messages are still there
C10_Witness ==
    /\ model_name # "deepseek-r1-distill-llama-70b"
    /\ GROQ_API_KEY = "bad"
    /\ ui.chat_input
    /\ ~ui.created
    /\ ui.requests = 0
    /\ memory.messages # <<>>

====
